---- MODULE Spec2Model ----
(***************************************************************************)
(* Model of organizer.py: organize_folder (simulate and real mode) and     *)
(* _safe_move, over a small file system.                                   *)
(*                                                                         *)
(* A file name is a sequence of one-character strings, so that lower(),    *)
(* splitext(), startswith() and the "stem (n)ext" formatting are computed  *)
(* as the code computes them.  A path is the sequence of its components    *)
(* below folder_path: <<name>> is folder/name, <<cat, name>> is            *)
(* folder/cat/name.                                                        *)
(***************************************************************************)
EXTENDS Integers, Sequences, FiniteSets, TLC

(* ------------------------------------------------------------------ *)
(* Bounds of the model.                                                *)
(* ------------------------------------------------------------------ *)
MaxItems == 3
MaxRuns == 2

(* ------------------------------------------------------------------ *)
(* Characters and strings.                                             *)
(* ------------------------------------------------------------------ *)
UpperChars == <<"A","B","C","D","E","F","G","H","I","J","K","L","M",
                "N","O","P","Q","R","S","T","U","V","W","X","Y","Z">>
LowerChars == <<"a","b","c","d","e","f","g","h","i","j","k","l","m",
                "n","o","p","q","r","s","t","u","v","w","x","y","z">>
DigitChars == <<"0","1","2","3","4","5","6","7","8","9">>

\* the lowercase letter of every uppercase letter
LowerOf ==
    [c \in {UpperChars[k] : k \in DOMAIN UpperChars} |->
        LowerChars[CHOOSE k \in DOMAIN UpperChars : UpperChars[k] = c]]

\* str.lower() on one character
LowerChar(c) == IF c \in DOMAIN LowerOf THEN LowerOf[c] ELSE c

\* str.lower()
Lower(s) == [k \in DOMAIN s |-> LowerChar(s[k])]

\* str(counter) for a non-negative integer
RECURSIVE Str(_)
Str(n) == IF n < 10 THEN <<DigitChars[n + 1]>>
          ELSE Str(n \div 10) \o <<DigitChars[(n % 10) + 1]>>

\* str.startswith('.')
StartsWithDot(s) == Len(s) > 0 /\ s[1] = "."

\* index of the last "." of s, 0 when there is none (str.rfind + 1)
LastDot(s) ==
    IF \E k \in DOMAIN s : s[k] = "."
    THEN CHOOSE k \in DOMAIN s : s[k] = "." /\ \A j \in DOMAIN s : j > k => s[j] # "."
    ELSE 0

\* os.path.splitext on a name without separators: the extension starts at the
\* last dot unless only dots precede it (leading dots are not an extension)
splitext(s) ==
    LET d == LastDot(s) IN
    IF d > 0 /\ \E j \in 1..(d - 1) : s[j] # "."
    THEN <<SubSeq(s, 1, d - 1), SubSeq(s, d, Len(s))>>
    ELSE <<s, <<>> >>

\* f"{base_name} ({counter}){ext}"
Numbered(base_name, counter, ext) ==
    base_name \o <<" ", "(">> \o Str(counter) \o <<")">> \o ext

(* ------------------------------------------------------------------ *)
(* Paths relative to folder_path.                                      *)
(* ------------------------------------------------------------------ *)
join(dir, name) == Append(dir, name)
dirname(p) == SubSeq(p, 1, Len(p) - 1)
basename(p) == p[Len(p)]
folder_path == <<>>

(* ------------------------------------------------------------------ *)
(* Program constants.                                                  *)
(* ------------------------------------------------------------------ *)
Images == <<"I","m","a","g","e","s">>
Documents == <<"D","o","c","u","m","e","n","t","s">>
Videos == <<"V","i","d","e","o","s">>
Audio == <<"A","u","d","i","o">>
Archives == <<"A","r","c","h","i","v","e","s">>

FILE_EXT_MAPPINGS ==
    (<<".","j","p","g">> :> Images) @@ (<<".","j","p","e","g">> :> Images) @@
    (<<".","p","n","g">> :> Images) @@ (<<".","g","i","f">> :> Images) @@
    (<<".","w","e","b","p">> :> Images) @@
    (<<".","p","d","f">> :> Documents) @@ (<<".","d","o","c","x">> :> Documents) @@
    (<<".","t","x","t">> :> Documents) @@ (<<".","p","p","t","x">> :> Documents) @@
    (<<".","x","l","s","x">> :> Documents) @@ (<<".","c","s","v">> :> Documents) @@
    (<<".","m","p","4">> :> Videos) @@ (<<".","m","o","v">> :> Videos) @@
    (<<".","a","v","i">> :> Videos) @@ (<<".","m","k","v">> :> Videos) @@
    (<<".","t","s">> :> Videos) @@
    (<<".","m","p","3">> :> Audio) @@ (<<".","w","a","v">> :> Audio) @@
    (<<".","a","a","c">> :> Audio) @@
    (<<".","z","i","p">> :> Archives) @@ (<<".","r","a","r">> :> Archives) @@
    (<<".","7","z">> :> Archives)

OTHER_CATEGORY == <<"O","t","h","e","r","s">>

SKIP_FILENAMES ==
    { <<"d","e","s","k","t","o","p",".","i","n","i">>,
      <<"t","h","u","m","b","s",".","d","b">>,
      <<"e","h","t","h","u","m","b","s",".","d","b">>,
      <<"a","u","t","o","r","u","n",".","i","n","f">> }

(* ------------------------------------------------------------------ *)
(* The names a directory of the model may hold.                        *)
(* ------------------------------------------------------------------ *)
N_a == <<"a",".","T","X","T">>
N_a1 == <<"a"," ","(","1",")",".","T","X","T">>
N_b == <<"b",".","d","a","t">>
N_thumbs == <<"T","h","u","m","b","s",".","d","b">>
N_hidden == <<".","a",".","t","x","t">>

\* names that are regular files whenever present
FileNames == {N_a, N_a1, N_b, N_thumbs, N_hidden, OTHER_CATEGORY}
\* names that are present as a regular file or as a directory
EitherNames == {Documents}
TopNames == FileNames \cup EitherNames
\* files a Documents directory may hold before the first run
PreFiles == { <<Documents, N_a>>, <<Documents, N_a1>> }

VARIABLES
    files,                  \* paths of the regular files on disk
    dirs,                   \* paths of the directories on disk
    entries,                \* the names in folder_path, in directory order
    pc,                     \* "idle", "loop" (top of the for loop), "move"
    run,                    \* number of finished calls of organize_folder
    simulate,               \* the simulate argument of the current call
    item_names,             \* os.listdir(folder_path) of the current call
    idx,                    \* position of the for loop in item_names
    files_moved_count,      \* the dict category -> count
    simulated_taken_paths,  \* the reservation set (unused when not simulate)
    candidate_path,         \* _safe_move's candidate_path between check and move
    category,               \* category of the entry at pc = "move"
    moved,                  \* the "Would move"/"Moved" records, in order
    skipped,                \* the "Warning: Skipping" records, in order
    classified,             \* history: entries that reached line 121, in order
    chosen,                 \* history: candidate paths picked in this call, in order
    faulted,                \* history: an OS permission or I/O fault was injected
    raced,                  \* history: names whose destination appeared after the check
    start,                  \* history: the disk when the current call started
    last                    \* history: the results of the call before the current one

vars == <<files, dirs, entries, pc, run, simulate, item_names, idx,
          files_moved_count, simulated_taken_paths, candidate_path, category,
          moved, skipped, classified, chosen, faulted, raced, start, last>>

(* ------------------------------------------------------------------ *)
(* File system primitives.                                             *)
(* ------------------------------------------------------------------ *)
\* os.path.exists
exists(p) == p \in files \/ p \in dirs
\* os.path.isfile
isfile(p) == p \in files

Range(s) == {s[k] : k \in DOMAIN s}
NoDup(s) == \A j, k \in DOMAIN s : j # k => s[j] # s[k]
EmptyCount == [c \in {} |-> 0]
\* dict.get(key, 0)
Get(d, key) == IF key \in DOMAIN d THEN d[key] ELSE 0
Disk == [files |-> files, dirs |-> dirs, entries |-> entries]
NoRun == [valid |-> FALSE]

(* ------------------------------------------------------------------ *)
(* Pieces of organize_folder and _safe_move.                           *)
(* ------------------------------------------------------------------ *)
\* mutant of NewTakenPaths: the reservation set of the call before is kept
NewTakenPaths_Stale(sim) == simulated_taken_paths

\* line 87: a fresh reservation set for every call (None when not simulate;
\* the set is never read then)
NewTakenPaths(sim) == {}

\* mutant of IsSystemFile: the name is compared without lower()
IsSystemFile_CaseSensitive(item_name) == item_name \in SKIP_FILENAMES

\* line 109: item_name.lower() in SKIP_FILENAMES
IsSystemFile(item_name) == Lower(item_name) \in SKIP_FILENAMES

\* lines 109-115: the entry is passed over without being classified
IsSkipped(item_name) ==
    \/ IsSystemFile(item_name)
    \/ ~isfile(join(folder_path, item_name))
    \/ StartsWithDot(item_name)

\* mutant of CategoryOf: the extension is looked up without lower()
CategoryOf_CaseSensitive(item_name) ==
    LET file_extension == splitext(item_name)[2] IN
    IF file_extension \in DOMAIN FILE_EXT_MAPPINGS
    THEN FILE_EXT_MAPPINGS[file_extension]
    ELSE OTHER_CATEGORY

\* lines 118-121: FILE_EXT_MAPPINGS.get(splitext(item_name)[1].lower(), OTHER_CATEGORY)
CategoryOf(item_name) ==
    LET file_extension == Lower(splitext(item_name)[2]) IN
    IF file_extension \in DOMAIN FILE_EXT_MAPPINGS
    THEN FILE_EXT_MAPPINGS[file_extension]
    ELSE OTHER_CATEGORY

\* mutant of RunsMakedirs: the folder is made in simulate mode too
RunsMakedirs_Always(sim) == TRUE

\* line 126: os.makedirs is called only when not simulating
RunsMakedirs(sim) == ~sim

\* os.makedirs(dest_folder_path, exist_ok=True) raises FileExistsError (an
\* OSError) when the path is a regular file
MakedirsMustFail(dest_folder_path) == isfile(dest_folder_path)

\* mutant of NeedsRename: the reservation set is not consulted
NeedsRename_DiskOnly(candidate, taken) == exists(candidate)

\* line 151: the condition of the simulate collision loop
NeedsRename(candidate, taken) == exists(candidate) \/ candidate \in taken

\* lines 149-153: the simulate collision loop
RECURSIVE SimLoop(_, _, _, _, _, _)
SimLoop(candidate, counter, dest_dir, base_name, ext, taken) ==
    IF NeedsRename(candidate, taken)
    THEN SimLoop(join(dest_dir, Numbered(base_name, counter, ext)), counter + 1,
                 dest_dir, base_name, ext, taken)
    ELSE candidate

\* lines 146-153: the destination the simulation reports for dest_path
SimCandidate(dest_path, taken) ==
    LET parts == splitext(basename(dest_path)) IN
    SimLoop(dest_path, 1, dirname(dest_path), parts[1], parts[2], taken)

\* mutant of SafeMoveCollides: the candidate is taken without looking at the disk
SafeMoveCollides_Unchecked(candidate) == FALSE

\* line 51: the condition of _safe_move's collision loop
SafeMoveCollides(candidate) == exists(candidate)

\* lines 46-53: _safe_move's collision loop
RECURSIVE SafeMoveLoop(_, _, _, _, _)
SafeMoveLoop(candidate, counter, dest_dir, base_name, ext) ==
    IF SafeMoveCollides(candidate)
    THEN SafeMoveLoop(join(dest_dir, Numbered(base_name, counter, ext)), counter + 1,
                      dest_dir, base_name, ext)
    ELSE candidate

\* lines 42-53: the path _safe_move moves to
SafeMoveCandidate(destination_path) ==
    LET parts == splitext(basename(destination_path)) IN
    SafeMoveLoop(destination_path, 1, dirname(destination_path), parts[1], parts[2])

\* mutant of Bump: the default of dict.get is 1 instead of 0
Bump_FromOne(count, cat) ==
    [c \in DOMAIN count \cup {cat} |->
        IF c = cat THEN (IF cat \in DOMAIN count THEN count[cat] ELSE 1) + 1 ELSE count[c]]

\* lines 157 and 165: files_moved_count[category] = files_moved_count.get(category, 0) + 1
Bump(count, cat) ==
    [c \in DOMAIN count \cup {cat} |-> IF c = cat THEN Get(count, cat) + 1 ELSE count[c]]

\* mutant of AfterFailure: break instead of continue
AfterFailure_Break(i) == Len(item_names) + 1

\* lines 133, 139 and 168: continue with the next item
AfterFailure(i) == i + 1

\* os.makedirs on the disk: the directory and its entry in folder_path
DirsAfterMakedirs(cat) == dirs \cup {join(folder_path, cat)}
EntriesAfterMakedirs(cat) ==
    IF exists(join(folder_path, cat)) THEN entries ELSE Append(entries, cat)

(* ------------------------------------------------------------------ *)
(* Initial states: a directory of at most MaxItems entries in any       *)
(* order, nothing run yet.                                              *)
(* ------------------------------------------------------------------ *)
Listings ==
    {s \in UNION {[1..k -> TopNames] : k \in 0..MaxItems} : NoDup(s)}

Init ==
    \E listing \in Listings :
    \E topdirs \in SUBSET (Range(listing) \cap EitherNames) :
    \E pre \in SUBSET PreFiles :
        /\ pre # {} => Documents \in topdirs
        /\ entries = listing
        /\ dirs = {join(folder_path, n) : n \in topdirs}
        /\ files = {join(folder_path, n) : n \in Range(listing) \ topdirs} \cup pre
        /\ pc = "idle"
        /\ run = 0
        /\ simulate = FALSE
        /\ item_names = <<>>
        /\ idx = 1
        /\ files_moved_count = EmptyCount
        /\ simulated_taken_paths = {}
        /\ candidate_path = <<>>
        /\ category = <<>>
        /\ moved = <<>>
        /\ skipped = <<>>
        /\ classified = <<>>
        /\ chosen = <<>>
        /\ faulted = FALSE
        /\ raced = {}
        /\ start = [files |-> {}, dirs |-> {}, entries |-> <<>>]
        /\ last = [valid |-> FALSE, simulate |-> FALSE, moved |-> <<>>,
                   count |-> EmptyCount, start |-> [files |-> {}, dirs |-> {}, entries |-> <<>>],
                   faulted |-> FALSE]

(* ------------------------------------------------------------------ *)
(* organize_folder, one action per step of a call.                      *)
(* ------------------------------------------------------------------ *)
\* lines 81-102: the call starts and lists the folder once.  A further call
\* is made while the latest one was a simulation; a call after a real run is a
\* first call on the directory that run left behind
Start ==
    /\ pc = "idle"
    /\ run < MaxRuns
    /\ run > 0 => simulate
    /\ \E sim \in BOOLEAN :
        /\ simulate' = sim
        /\ simulated_taken_paths' = NewTakenPaths(sim)
    /\ item_names' = entries
    /\ idx' = 1
    /\ files_moved_count' = EmptyCount
    /\ candidate_path' = <<>>
    /\ category' = <<>>
    /\ moved' = <<>>
    /\ skipped' = <<>>
    /\ classified' = <<>>
    /\ chosen' = <<>>
    /\ faulted' = FALSE
    /\ raced' = {}
    /\ start' = Disk
    /\ last' = IF run > 0
               THEN [valid |-> TRUE, simulate |-> simulate, moved |-> moved,
                     count |-> files_moved_count, start |-> start, faulted |-> faulted]
               ELSE last
    /\ pc' = "loop"
    /\ UNCHANGED <<files, dirs, entries, run>>

AtItem == pc = "loop" /\ idx <= Len(item_names)

\* lines 105-115: a system file, a non-file or a hidden file is passed over
SkipItem ==
    /\ AtItem
    /\ IsSkipped(item_names[idx])
    /\ idx' = idx + 1
    /\ UNCHANGED <<files, dirs, entries, pc, run, simulate, item_names,
                   files_moved_count, simulated_taken_paths, candidate_path, category,
                   moved, skipped, classified, chosen, faulted, raced, start, last>>

\* lines 118-139: os.makedirs raises (the path is a regular file, or the OS
\* denies it): the entry is reported as skipped and the loop continues
PrepareFail ==
    /\ AtItem
    /\ ~IsSkipped(item_names[idx])
    /\ RunsMakedirs(simulate)
    /\ LET item_name == item_names[idx]
           cat == CategoryOf(item_name)
           dest_folder_path == join(folder_path, cat)
       IN /\ classified' = Append(classified, [name |-> item_name, category |-> cat])
          /\ skipped' = Append(skipped, item_name)
          /\ faulted' = (faulted \/ ~MakedirsMustFail(dest_folder_path))
    /\ idx' = AfterFailure(idx)
    /\ UNCHANGED <<files, dirs, entries, pc, run, simulate, item_names,
                   files_moved_count, simulated_taken_paths, candidate_path, category,
                   moved, chosen, raced, start, last>>

\* lines 118-158 with simulate: the destination is computed, reported and reserved
SimulateItem ==
    /\ AtItem
    /\ ~IsSkipped(item_names[idx])
    /\ simulate
    /\ LET item_name == item_names[idx]
           cat == CategoryOf(item_name)
           dest_folder_path == join(folder_path, cat)
           dest_path == join(dest_folder_path, item_name)
           cand == SimCandidate(dest_path, simulated_taken_paths)
       IN /\ RunsMakedirs(simulate) => ~MakedirsMustFail(dest_folder_path)
          /\ dirs' = IF RunsMakedirs(simulate) THEN DirsAfterMakedirs(cat) ELSE dirs
          /\ entries' = IF RunsMakedirs(simulate) THEN EntriesAfterMakedirs(cat) ELSE entries
          /\ classified' = Append(classified, [name |-> item_name, category |-> cat])
          /\ chosen' = Append(chosen, [name |-> item_name, category |-> cat, first |-> dest_path, dest |-> cand])
          /\ moved' = Append(moved, [name |-> item_name, category |-> cat, dest |-> cand])
          /\ files_moved_count' = Bump(files_moved_count, cat)
          /\ simulated_taken_paths' = simulated_taken_paths \cup {cand}
    /\ idx' = idx + 1
    /\ UNCHANGED <<files, pc, run, simulate, item_names, candidate_path, category,
                   skipped, faulted, raced, start, last>>

\* lines 118-127, 142, 160 and 42-53 without simulate: the category folder is
\* made and _safe_move picks its candidate path; the move itself is the next step
ResolveItem ==
    /\ AtItem
    /\ ~IsSkipped(item_names[idx])
    /\ ~simulate
    /\ LET item_name == item_names[idx]
           cat == CategoryOf(item_name)
           dest_folder_path == join(folder_path, cat)
           dest_path == join(dest_folder_path, item_name)
           cand == SafeMoveCandidate(dest_path)
       IN /\ RunsMakedirs(simulate) => ~MakedirsMustFail(dest_folder_path)
          /\ dirs' = IF RunsMakedirs(simulate) THEN DirsAfterMakedirs(cat) ELSE dirs
          /\ entries' = IF RunsMakedirs(simulate) THEN EntriesAfterMakedirs(cat) ELSE entries
          /\ classified' = Append(classified, [name |-> item_name, category |-> cat])
          /\ chosen' = Append(chosen, [name |-> item_name, category |-> cat, first |-> dest_path, dest |-> cand])
          /\ candidate_path' = cand
          /\ category' = cat
    /\ pc' = "move"
    /\ UNCHANGED <<files, run, simulate, item_names, idx, files_moved_count,
                   simulated_taken_paths, moved, skipped, faulted, raced, start, last>>

\* lines 56, 70 and 160-165: shutil.move succeeds (os.rename replaces a file
\* that is already at the candidate path); the move is reported and counted
MoveOk ==
    /\ pc = "move"
    /\ LET item_name == item_names[idx]
           source_path == join(folder_path, item_name)
       IN /\ files' = (files \ {source_path}) \cup {candidate_path}
          /\ entries' = SelectSeq(entries, LAMBDA n : n # item_name)
          /\ moved' = Append(moved, [name |-> item_name, category |-> category,
                                     dest |-> candidate_path])
    /\ files_moved_count' = Bump(files_moved_count, category)
    /\ idx' = idx + 1
    /\ pc' = "loop"
    /\ candidate_path' = <<>>
    /\ category' = <<>>
    /\ UNCHANGED <<dirs, run, simulate, item_names, simulated_taken_paths,
                   skipped, classified, chosen, faulted, raced, start, last>>

\* lines 57-68 and 166-168: shutil.move raises PermissionError or OSError; the
\* entry is reported as skipped and the loop continues
MoveFail ==
    /\ pc = "move"
    /\ skipped' = Append(skipped, item_names[idx])
    /\ faulted' = TRUE
    /\ idx' = AfterFailure(idx)
    /\ pc' = "loop"
    /\ candidate_path' = <<>>
    /\ category' = <<>>
    /\ UNCHANGED <<files, dirs, entries, run, simulate, item_names, files_moved_count,
                   simulated_taken_paths, moved, classified, chosen, raced, start, last>>

\* lines 170-185: the loop is over, the summary is printed and the call returns
Finish ==
    /\ pc = "loop"
    /\ idx > Len(item_names)
    /\ pc' = "idle"
    /\ run' = run + 1
    /\ UNCHANGED <<files, dirs, entries, simulate, item_names, idx,
                   files_moved_count, simulated_taken_paths, candidate_path, category,
                   moved, skipped, classified, chosen, faulted, raced, start, last>>

\* another process creates a file at the candidate path after _safe_move's
\* existence check (line 51) and before its shutil.move (line 56)
EnvCreate ==
    /\ pc = "move"
    /\ ~exists(candidate_path)
    /\ files' = files \cup {candidate_path}
    /\ raced' = raced \cup {item_names[idx]}
    /\ UNCHANGED <<dirs, entries, pc, run, simulate, item_names, idx,
                   files_moved_count, simulated_taken_paths, candidate_path, category,
                   moved, skipped, classified, chosen, faulted, start, last>>

Next ==
    \/ Start
    \/ SkipItem
    \/ PrepareFail
    \/ SimulateItem
    \/ ResolveItem
    \/ MoveOk
    \/ MoveFail
    \/ Finish

Spec == Init /\ [][Next]_vars

NextEnv ==
    \/ Next
    \/ EnvCreate

SpecEnv == Init /\ [][NextEnv]_vars

(* ------------------------------------------------------------------ *)
(* Vocabulary of the properties.                                       *)
(* ------------------------------------------------------------------ *)
Categories == {FILE_EXT_MAPPINGS[e] : e \in DOMAIN FILE_EXT_MAPPINGS} \cup {OTHER_CATEGORY}
Names(log) == [k \in DOMAIN log |-> log[k].name]
CountWhere(log, cat) == Cardinality({k \in DOMAIN log : log[k].category = cat})
Position(s, x) == CHOOSE k \in DOMAIN s : s[k] = x
RunOver == pc = "idle" /\ run > 0
OnDisk == files \cup dirs
\* a regular file when the call started that is neither OS metadata nor hidden
Eligible(n) ==
    /\ <<n>> \in start.files
    /\ Lower(n) \notin SKIP_FILENAMES
    /\ n[1] # "."
\* the n-th path of the sequence C/stem+ext, C/stem (1)ext, C/stem (2)ext, ...
CollisionSeq(cat, name, n) ==
    IF n = 0 THEN <<cat, name>>
    ELSE <<cat, splitext(name)[1] \o <<" ", "(">> \o Str(n) \o <<")">> \o splitext(name)[2]>>
\* rec.dest is the first path of the sequence that is not in occupied
IsFirstFree(rec, occupied) ==
    \E n \in 0..Cardinality(occupied) :
        /\ rec.dest = CollisionSeq(rec.category, rec.name, n)
        /\ rec.dest \notin occupied
        /\ \A m \in 0..(n - 1) : CollisionSeq(rec.category, rec.name, m) \in occupied
N_a11 == <<"a"," ","(","1",")"," ","(","1",")",".","T","X","T">>

(* ------------------------------------------------------------------ *)
(* C1.  The destinations reported in one pass (planned when simulating, *)
(* moved to otherwise) are pairwise distinct.                            *)
(* ------------------------------------------------------------------ *)
C1_DistinctDestinations ==
    \A j, k \in DOMAIN moved : j # k => moved[j].dest # moved[k].dest

\* a later entry whose first choice is the destination an earlier entry got
C1_Witness ==
    /\ RunOver
    /\ \E j, k \in DOMAIN moved :
        /\ j < k
        /\ <<moved[k].category, moved[k].name>> = moved[j].dest
        /\ moved[k].dest # moved[j].dest

(* ------------------------------------------------------------------ *)
(* C2 as stated.  The destination picked for an entry is the first path *)
(* of C/stem+ext, C/stem (1)ext, C/stem (2)ext, ... that neither exists  *)
(* on disk nor was picked earlier in the same pass.                      *)
(* ------------------------------------------------------------------ *)
C2_FirstNotOnDiskNorPicked ==
    [][Len(chosen') = Len(chosen) + 1 =>
         IsFirstFree(chosen'[Len(chosen')],
                     OnDisk \cup {chosen[k].dest : k \in DOMAIN chosen})]_vars

(* ------------------------------------------------------------------ *)
(* C2 as amended.  The destination picked for an entry is the first     *)
(* path of the sequence that neither exists on disk nor is the           *)
(* destination of an entry planned or moved earlier in the same pass (a  *)
(* path picked for an entry whose move failed stays free).               *)
(* ------------------------------------------------------------------ *)
C2_FirstNotOnDiskNorTaken ==
    [][Len(chosen') = Len(chosen) + 1 =>
         IsFirstFree(chosen'[Len(chosen')],
                     OnDisk \cup {moved[k].dest : k \in DOMAIN moved})]_vars

\* a.TXT meets Documents/a.TXT on disk and gets (1); "a (1).TXT" then meets
\* that reservation and gets its own (1)
C2_Witness ==
    /\ RunOver
    /\ simulate
    /\ <<Documents, N_a>> \in files
    /\ \E j, k \in DOMAIN moved :
        /\ j < k
        /\ moved[j].name = N_a /\ moved[j].dest = <<Documents, N_a1>>
        /\ moved[k].name = N_a1 /\ moved[k].dest = <<Documents, N_a11>>

(* ------------------------------------------------------------------ *)
(* C3 as stated.  At the end of a run the count of every category is    *)
(* the number of entries classified into it, whatever became of them.    *)
(* ------------------------------------------------------------------ *)
C3_CountsEveryClassified ==
    RunOver => \A c \in Categories :
        Get(files_moved_count, c) = CountWhere(classified, c)

(* ------------------------------------------------------------------ *)
(* C3 as amended.  The count of every category is the number of entries *)
(* classified into it whose move was planned (simulate) or carried out   *)
(* (real); when simulating that is every classified entry.               *)
(* ------------------------------------------------------------------ *)
C3_CountsPlannedOrMoved ==
    /\ DOMAIN files_moved_count \subseteq Categories
    /\ \A c \in Categories : Get(files_moved_count, c) = CountWhere(moved, c)
    /\ \A k \in DOMAIN moved : \E j \in DOMAIN classified :
          classified[j].name = moved[k].name /\ classified[j].category = moved[k].category
    /\ simulate => \A c \in Categories :
          Get(files_moved_count, c) = CountWhere(classified, c)

\* a real run in which a category has a moved entry and an entry that failed
C3_Witness ==
    /\ RunOver
    /\ ~simulate
    /\ \E c \in Categories :
        /\ Get(files_moved_count, c) >= 1
        /\ CountWhere(classified, c) > Get(files_moved_count, c)

C5_SimulateLeavesDisk ==
    simulate => Disk = start

\* a finished simulation that planned a move into a folder that does not exist
C5_Witness ==
    /\ RunOver
    /\ simulate
    /\ \E k \in DOMAIN moved :
        /\ ~exists(<<moved[k].category>>)
        /\ isfile(<<moved[k].name>>)

(* ------------------------------------------------------------------ *)
(* C6.  A non-file, an ignore-set name (any case) or a hidden name is   *)
(* never classified, moved or counted; every other entry is classified.  *)
(* ------------------------------------------------------------------ *)
C6_SkipLaw ==
    /\ \A k \in DOMAIN classified : Eligible(classified[k].name)
    /\ \A k \in DOMAIN moved : Eligible(moved[k].name)
    /\ \A c \in DOMAIN files_moved_count :
          files_moved_count[c] <=
              Cardinality({k \in DOMAIN classified :
                              classified[k].category = c /\ Eligible(classified[k].name)})
    /\ RunOver => \A n \in Range(item_names) :
          Eligible(n) => n \in Range(Names(classified))

\* a finished run over Thumbs.db, a hidden file and a directory: nothing is
\* moved or counted
C6_Witness ==
    /\ RunOver
    /\ Range(item_names) = {N_thumbs, N_hidden, Documents}
    /\ <<Documents>> \in start.dirs
    /\ moved = <<>>
    /\ skipped = <<>>
    /\ files_moved_count = EmptyCount

(* ------------------------------------------------------------------ *)
(* C7.  An entry whose destination came to exist after the collision    *)
(* check and before the move is reported as skipped and never as moved.  *)
(* ------------------------------------------------------------------ *)
C7_RacedEntrySkipped ==
    \A n \in raced :
        /\ n \notin Range(Names(moved))
        /\ (pc = "loop" \/ pc = "idle") => n \in Range(skipped)

(* ------------------------------------------------------------------ *)
(* C8.  Two simulate runs on the same untouched directory report the    *)
(* same sequence of (source, destination) and the same summary.          *)
(* ------------------------------------------------------------------ *)
C8_PlanningIdempotent ==
    (RunOver /\ simulate /\ last.valid /\ last.simulate /\ last.start = start) =>
        /\ moved = last.moved
        /\ files_moved_count = last.count

\* the second of two simulations, with a destination renamed by a reservation
C8_Witness ==
    /\ RunOver
    /\ simulate
    /\ last.valid /\ last.simulate /\ last.start = start
    /\ \E j, k \in DOMAIN moved :
        /\ j < k
        /\ <<moved[k].category, moved[k].name>> = moved[j].dest

(* ------------------------------------------------------------------ *)
(* C9.  The category of a classified entry is the mapping's value for   *)
(* its lowercased extension, "Others" when the mapping has none or the   *)
(* extension is empty; the first destination tried is Category/name.     *)
(* ------------------------------------------------------------------ *)
C9_CategoryLaw ==
    /\ \A k \in DOMAIN classified :
        LET n == classified[k].name
            e == Lower(splitext(n)[2])
        IN /\ e \in DOMAIN FILE_EXT_MAPPINGS => classified[k].category = FILE_EXT_MAPPINGS[e]
           /\ e \notin DOMAIN FILE_EXT_MAPPINGS => classified[k].category = OTHER_CATEGORY
           /\ n \in {N_a, N_a1} => classified[k].category = Documents
           /\ n \in {N_b, OTHER_CATEGORY, Documents} => classified[k].category = OTHER_CATEGORY
    /\ \A k \in DOMAIN chosen :
        /\ chosen[k].first = <<chosen[k].category, chosen[k].name>>
        /\ \E j \in DOMAIN classified :
              classified[j].name = chosen[k].name /\ classified[j].category = chosen[k].category

\* a finished run that classified a.TXT as Documents, and b.dat and the
\* extensionless file Others as Others
C9_Witness ==
    /\ RunOver
    /\ {N_a, N_b, OTHER_CATEGORY} \subseteq Range(Names(classified))
    /\ \E k \in DOMAIN chosen : chosen[k].first = <<Documents, N_a>>

(* ------------------------------------------------------------------ *)
(* C10.  A real run without an injected permission or I/O fault moves   *)
(* every entry to the destination the simulation on the same directory   *)
(* reported, with the same summary.                                      *)
(* ------------------------------------------------------------------ *)
C10_SimulationPredictsExecution ==
    (RunOver /\ ~simulate /\ ~faulted /\ last.valid /\ last.simulate /\ last.start = start) =>
        /\ moved = last.moved
        /\ files_moved_count = last.count

====
